---- MODULE Spec2Model ----
(***************************************************************************)
(* Model of the Mitsuba 3 Render Studio GUI: scene tabs, the main window's *)
(* signal wiring, the SubprocessRenderer, the render child process and the *)
(* scene generators.                                                       *)
(***************************************************************************)
EXTENDS Integers, Sequences, FiniteSets, TLC

(***************************************************************************)
(* Text.  A Python str is a sequence of one-character strings.  ESC stands *)
(* for the character \x1B.                                                 *)
(***************************************************************************)
ESC == "ESC"

Digits == {"0", "1", "2", "3", "4", "5", "6", "7", "8", "9"}

UpperCase ==
  {"A", "B", "C", "D", "E", "F", "G", "H", "I", "J", "K", "L", "M",
   "N", "O", "P", "Q", "R", "S", "T", "U", "V", "W", "X", "Y", "Z"}

LowerCase ==
  {"a", "b", "c", "d", "e", "f", "g", "h", "i", "j", "k", "l", "m",
   "n", "o", "p", "q", "r", "s", "t", "u", "v", "w", "x", "y", "z"}

\* str.strip() with no argument removes these characters
WhiteSpace == {" ", "\n", "\r", "\t"}

\* character classes of the regular expression in strip_ansi_codes (the
\* backslash, the quotes, the parentheses and the asterisk are left out of
\* the alphabet)
AnsiFe == {"@"} \cup UpperCase \cup {"]", "^", "_"}

AnsiParam == Digits \cup {":", ";", "<", "=", ">", "?"}

AnsiInter ==
  {" ", "!", "#", "$", "%", "&", "+", ",", "-", ".", "/"}

AnsiFinal ==
  {"@"} \cup UpperCase \cup {"[", "]", "^", "_"} \cup LowerCase
    \cup {"{", "|", "}", "~"}

Drop(s, n) == SubSeq(s, n + 1, Len(s))

RECURSIVE SkipWhile(_, _, _)
\* the first index >= i of s whose character is not in class (Len(s)+1 if none)
SkipWhile(s, i, class) ==
  IF i <= Len(s) /\ s[i] \in class THEN SkipWhile(s, i + 1, class) ELSE i

\* the length of the match of \x1B(?:[@-Z\\-_]|\[[0-?]*[ -/]*[@-~]) at the
\* head of s, 0 when it does not match there
AnsiMatchLen(s) ==
  IF Len(s) < 2 \/ s[1] # ESC THEN 0
  ELSE IF s[2] \in AnsiFe THEN 2
  ELSE IF s[2] # "[" THEN 0
  ELSE LET j == SkipWhile(s, SkipWhile(s, 3, AnsiParam), AnsiInter)
       IN IF j <= Len(s) /\ s[j] \in AnsiFinal THEN j ELSE 0

RECURSIVE IndexOf(_, _, _)
\* the first index >= i of s holding character c, 0 when there is none
IndexOf(s, c, i) ==
  IF i > Len(s) THEN 0 ELSE IF s[i] = c THEN i ELSE IndexOf(s, c, i + 1)

RECURSIVE strip_ansi_codes(_)
\* ansi_escape.sub('', text): every match is removed, left to right
strip_ansi_codes(text) ==
  IF \A j \in 1..Len(text) : text[j] # ESC THEN text
  ELSE LET k == IndexOf(text, ESC, 1)
           rest == Drop(text, k - 1)
              n == AnsiMatchLen(rest)
       IN SubSeq(text, 1, k - 1)
            \o (IF n > 0 THEN strip_ansi_codes(Drop(rest, n))
                ELSE <<ESC>> \o strip_ansi_codes(Drop(rest, 1)))

RECURSIVE RStrip(_)
RStrip(s) ==
  IF s # <<>> /\ s[Len(s)] \in WhiteSpace THEN RStrip(SubSeq(s, 1, Len(s) - 1))
  ELSE s

\* str.strip()
Strip(s) == RStrip(Drop(s, SkipWhile(s, 1, WhiteSpace) - 1))

RECURSIVE SplitAt(_, _, _)
\* the pieces of s from index from on, cut at the indices in cuts
SplitAt(s, cuts, from) ==
  IF cuts = {} THEN <<SubSeq(s, from, Len(s))>>
  ELSE LET k == CHOOSE x \in cuts : \A y \in cuts : x <= y
       IN <<SubSeq(s, from, k - 1)>> \o SplitAt(s, cuts \ {k}, k + 1)

\* str.split(sep) for a one-character separator: never the empty list
Split(s, sep) == SplitAt(s, {k \in 1..Len(s) : s[k] = sep}, 1)

\* str.startswith(prefix)
StartsWith(s, prefix) ==
  Len(s) >= Len(prefix) /\ SubSeq(s, 1, Len(prefix)) = prefix

DigitVal(c) ==
  CASE c = "0" -> 0 [] c = "1" -> 1 [] c = "2" -> 2 [] c = "3" -> 3
    [] c = "4" -> 4 [] c = "5" -> 5 [] c = "6" -> 6 [] c = "7" -> 7
    [] c = "8" -> 8 [] c = "9" -> 9

\* the C int range of pyqtSignal(int): emit raises OverflowError outside it
SignalIntMax == 2147483647

RECURSIVE NegDecimalValue(_)
\* minus the number a digit string denotes, 1 when that is below the C int
\* range
NegDecimalValue(s) ==
  IF s = <<>> THEN 0
  ELSE LET h == NegDecimalValue(SubSeq(s, 1, Len(s) - 1))
           d == DigitVal(s[Len(s)])
           low == 0 - (SignalIntMax \div 10)
       IN IF h = 1 \/ h < low \/ (h = low /\ d > (SignalIntMax % 10) + 1) THEN 1
          ELSE 10 * h - d

\* int(str): surrounding whitespace is ignored, one optional sign, then one or
\* more decimal digits; anything else raises ValueError (ok = FALSE).  fits
\* tells whether the value is in the C int range, and val is the value then.
\* The underscore digit separator is not in the alphabet of the checked
\* inputs.
PyInt(s) ==
  LET t == Strip(s)
      signed == t # <<>> /\ t[1] \in {"+", "-"}
      minus == signed /\ t[1] = "-"
      body == IF signed THEN Drop(t, 1) ELSE t
      ok == body # <<>> /\ \A i \in 1..Len(body) : body[i] \in Digits
      neg == IF ok THEN NegDecimalValue(body) ELSE 0
      fits == ok /\ neg # 1 /\ (minus \/ neg >= 0 - SignalIntMax)
  IN [ok |-> ok, fits |-> fits,
      val |-> IF ~fits THEN 0 ELSE IF minus THEN neg ELSE 0 - neg]

PROGRESS_TAG == <<"P", "R", "O", "G", "R", "E", "S", "S", ":">>

LOG_TAG == <<"L", "O", "G", ":">>

\* LineSignals with the LOG remainder emitted as it stands, not stripped
LineSignals_unstripped(line) ==
  IF line = <<>> THEN <<>>
  ELSE IF StartsWith(line, PROGRESS_TAG) THEN
    LET p == PyInt(Split(line, ":")[2])
    IN IF p.ok /\ p.fits
       THEN <<[sig |-> "progress_updated", val |-> p.val, msg |-> <<>>]>>
       ELSE <<>>
  ELSE IF StartsWith(line, LOG_TAG) THEN
    <<[sig |-> "log_message", val |-> 0, msg |-> Drop(line, Len(LOG_TAG))]>>
  ELSE <<>>

\* the signals one line of child stdout makes _on_stdout emit
LineSignals(line) ==
  IF line = <<>> THEN <<>>
  ELSE IF StartsWith(line, PROGRESS_TAG) THEN
    LET p == PyInt(Split(line, ":")[2])
    IN IF p.ok /\ p.fits
       THEN <<[sig |-> "progress_updated", val |-> p.val, msg |-> <<>>]>>
       ELSE <<>>
  ELSE IF StartsWith(line, LOG_TAG) THEN
    <<[sig |-> "log_message", val |-> 0, msg |-> Strip(Drop(line, Len(LOG_TAG)))]>>
  ELSE <<>>

\* the lines _on_stdout iterates over for one chunk read from the pipe
StdoutLines(raw) == Split(Strip(strip_ansi_codes(raw)), "\n")

RECURSIVE SignalsOfLines(_)
SignalsOfLines(lines) ==
  IF lines = <<>> THEN <<>>
  ELSE LineSignals(lines[1]) \o SignalsOfLines(Tail(lines))

\* the signals _on_stdout emits, in order, for one chunk read from the pipe
StdoutSignals(raw) == SignalsOfLines(StdoutLines(raw))

(***************************************************************************)
(* Scene generators.  A dict is a function on its keys; a scene dict keeps *)
(* the plugin type of every top-level entry and the integrator and sensor  *)
(* in full, without the float-valued geometry.                             *)
(***************************************************************************)
\* dict.get(key, default)
Get(d, key, default) == IF key \in DOMAIN d THEN d[key] ELSE default

Integrator(depth) ==
  IF depth = 0 THEN [type |-> "path"] ELSE [type |-> "path", max_depth |-> depth]

Sensor(fov, width, height) ==
  [type |-> "perspective", fov |-> fov,
   film |-> [type |-> "hdrfilm", width |-> width, height |-> height,
             pixel_format |-> "rgb"]]

Shape(type, bsdf) == [type |-> type, bsdf |-> bsdf]

BasicSceneGenerator_generate(params) ==
  LET width == Get(params, "width", 800)
      height == Get(params, "height", 600)
      material_type == Get(params, "material_type", "diffuse")
      bsdf == CASE material_type = "diffuse" -> "diffuse"
                [] material_type = "conductor" -> "roughconductor"
                [] material_type = "dielectric" -> "dielectric"
                [] OTHER -> "plastic"
  IN ("type" :> "scene") @@ ("integrator" :> Integrator(0))
       @@ ("sensor" :> Sensor(39, width, height))
       @@ ("sphere" :> Shape("sphere", bsdf))
       @@ ("ground" :> Shape("rectangle", "diffuse"))
       @@ ("light" :> [type |-> "point"])

\* CornellBoxGenerator.generate with the film height default of the other
\* generators
CornellBoxGenerator_generate_height600(params) ==
  LET width == Get(params, "width", 800)
      height == Get(params, "height", 600)
  IN ("type" :> "scene") @@ ("integrator" :> Integrator(8))
       @@ ("sensor" :> Sensor(40, width, height))
       @@ [k \in {"floor", "ceiling", "back_wall", "right_wall", "left_wall"}
             |-> Shape("rectangle", "diffuse")]
       @@ ("light" :> [type |-> "rectangle", emitter |-> "area"])
       @@ ("sphere" :> Shape("sphere", "diffuse"))
       @@ ("box" :> Shape("cube", "diffuse"))

CornellBoxGenerator_generate(params) ==
  LET width == Get(params, "width", 800)
      height == Get(params, "height", 800)
  IN ("type" :> "scene") @@ ("integrator" :> Integrator(8))
       @@ ("sensor" :> Sensor(40, width, height))
       @@ [k \in {"floor", "ceiling", "back_wall", "right_wall", "left_wall"}
             |-> Shape("rectangle", "diffuse")]
       @@ ("light" :> [type |-> "rectangle", emitter |-> "area"])
       @@ ("sphere" :> Shape("sphere", "diffuse"))
       @@ ("box" :> Shape("cube", "diffuse"))

GlassDemoGenerator_add_background(bg_type) ==
  CASE bg_type \in {"white", "checker"} ->
         ("back_wall" :> Shape("rectangle", "diffuse"))
    [] bg_type = "gradient" ->
         ("env_light" :> [type |-> "rectangle", emitter |-> "area", bsdf |-> "diffuse"])
    [] OTHER -> <<>>

GlassDemoGenerator_generate(params) ==
  LET width == Get(params, "width", 800)
      height == Get(params, "height", 600)
      glass_type == Get(params, "glass_type", "sphere")
      clear == Get(params, "glass_tint", "clear") = "clear"
      background_type == Get(params, "background_type", "white")
      show_caustics == Get(params, "show_caustics", TRUE)
      glass_bsdf == IF clear THEN "dielectric" ELSE "thindielectric"
  IN ("type" :> "scene") @@ ("integrator" :> Integrator(12))
       @@ ("sensor" :> Sensor(45, width, height))
       @@ GlassDemoGenerator_add_background(background_type)
       @@ (IF show_caustics THEN ("caustic_plane" :> Shape("rectangle", "diffuse"))
           ELSE <<>>)
       @@ (CASE glass_type = "sphere" -> ("glass_sphere" :> Shape("sphere", glass_bsdf))
             [] glass_type = "cube" -> ("glass_cube" :> Shape("cube", glass_bsdf))
             [] glass_type = "cylinder" ->
                  ("glass_cylinder" :> Shape("cylinder", glass_bsdf))
             [] glass_type = "wine_glass" ->
                  ("glass_bowl" :> Shape("sphere", glass_bsdf))
                    @@ ("glass_stem" :> Shape("cylinder", glass_bsdf))
                    @@ ("glass_base" :> Shape("disk", glass_bsdf))
             [] OTHER -> <<>>)
       @@ [k \in {"key_light", "fill_light"} |-> [type |-> "point"]]
       @@ [k \in {"red_sphere", "blue_sphere"} |-> Shape("sphere", "diffuse")]

LightingTechniquesGenerator_create_material(material_type) ==
  CASE material_type = "plastic" -> "plastic"
    [] material_type = "metal" -> "roughconductor"
    [] OTHER -> "diffuse"

LightingTechniquesGenerator_generate(params) ==
  LET width == Get(params, "width", 800)
      height == Get(params, "height", 600)
      lighting_type == Get(params, "lighting_type", "three_point")
      object_type == Get(params, "object_type", "sphere")
      obj_bsdf == LightingTechniquesGenerator_create_material(
                    Get(params, "object_material", "plastic"))
      point == [type |-> "point"]
      area == [type |-> "rectangle", emitter |-> "area"]
  IN ("type" :> "scene") @@ ("integrator" :> Integrator(8))
       @@ ("sensor" :> Sensor(45, width, height))
       @@ [k \in {"ground", "back_wall"} |-> Shape("rectangle", "diffuse")]
       @@ (IF object_type \in {"sphere", "both"}
           THEN ("sphere" :> Shape("sphere", obj_bsdf)) ELSE <<>>)
       @@ (IF object_type \in {"cube", "both"}
           THEN ("cube" :> Shape("cube", obj_bsdf)) ELSE <<>>)
       @@ (CASE lighting_type = "three_point" ->
                  [k \in {"key_light", "fill_light", "rim_light"} |-> point]
             [] lighting_type = "dramatic" ->
                  [k \in {"key_light", "weak_fill"} |-> point]
             [] lighting_type = "soft" ->
                  ("top_light" :> area)
                    @@ [k \in {"side_light_0", "side_light_1"} |-> area]
             [] lighting_type = "rim" -> [k \in {"rim_light", "front_fill"} |-> point]
             [] lighting_type = "top" -> [k \in {"top_light", "bounce"} |-> point]
             [] OTHER -> <<>>)

CustomMeshGenerator_create_material(material_type) ==
  CASE material_type = "conductor" -> "roughconductor"
    [] material_type = "dielectric" -> "dielectric"
    [] material_type = "plastic" -> "plastic"
    [] OTHER -> "diffuse"

\* a mesh file is named by its suffix
CustomMeshGenerator_create_mesh_shape(mesh_file, bsdf) ==
  LET plugin_type == CASE mesh_file = ".ply" -> "ply"
                       [] mesh_file = ".serialized" -> "serialized"
                       [] OTHER -> "obj"
  IN IF mesh_file = ".stl"
     THEN [type |-> plugin_type, filename |-> mesh_file, bsdf |-> bsdf,
           face_normals |-> TRUE]
     ELSE [type |-> plugin_type, filename |-> mesh_file, bsdf |-> bsdf]

\* the exception a generator or a tab raises instead of returning a dict
Raised(exc) == [raised |-> exc]

IsRaised(r) == DOMAIN r = {"raised"}

CustomMeshGenerator_generate(params) ==
  LET width == Get(params, "width", 800)
      height == Get(params, "height", 600)
      mesh_file == Get(params, "mesh_file", "")
      bsdf == CustomMeshGenerator_create_material(Get(params, "material_type", "diffuse"))
      use_ground == Get(params, "use_ground", TRUE)
      light_type == Get(params, "light_type", "point")
      hdri_path == Get(params, "hdri_path", "")
  IN IF mesh_file = "" THEN Raised("ValueError")
     ELSE ("type" :> "scene") @@ ("integrator" :> Integrator(8))
            @@ ("sensor" :> Sensor(45, width, height))
            @@ ("custom_mesh" :> CustomMeshGenerator_create_mesh_shape(mesh_file, bsdf))
            @@ (IF use_ground THEN ("ground" :> Shape("rectangle", "diffuse")) ELSE <<>>)
            @@ (IF light_type = "hdri" /\ hdri_path # ""
                THEN ("emitter" :> [type |-> "envmap", filename |-> hdri_path])
                ELSE [k \in {"light_key", "light_fill"} |-> [type |-> "point"]])

Generators == {"basic", "cornell", "glass", "lighting", "mesh"}

generate(gen, params) ==
  CASE gen = "basic" -> BasicSceneGenerator_generate(params)
    [] gen = "cornell" -> CornellBoxGenerator_generate(params)
    [] gen = "glass" -> GlassDemoGenerator_generate(params)
    [] gen = "lighting" -> LightingTechniquesGenerator_generate(params)
    [] gen = "mesh" -> CustomMeshGenerator_generate(params)

(***************************************************************************)
(* State.                                                                  *)
(***************************************************************************)
VARIABLES
  current_tab,     \* MainWindow.tab_widget.currentWidget()
  tabs,            \* per tab: _is_rendering, render_btn, cancel_btn, progress_bar
  mesh_file_path,  \* CustomMeshTab.mesh_file_path ("" when none is selected)
  process,         \* SubprocessRenderer.process: 0 for None, else an index of procs
  procs,           \* every QProcess created so far, with its child
  temp_files,      \* SubprocessRenderer.temp_files
  disk,            \* the temp scene files: file id -> pickled content or NoFile
  closed,          \* the main window accepted a close event
  emitted,         \* the click or process event handled last and the tab and
                   \* renderer signals emitted while handling it, in order
  last_chunk,      \* the bytes _on_stdout read while handling the last event
  gen_in,          \* scene generator under check and its params argument
  gen_out,         \* what the generator returned, and params after the call
  home,            \* the Home tab's widgets: width_spin, height_spin, spp_spin,
                   \* variant_combo, auto_scroll_check
  request,         \* the arguments of a render_requested signal delivered to
                   \* _on_render_requested on its own
  pipe             \* the stdout pipe watched byte by byte: the print calls
                   \* the child made, and per notification the bytes
                   \* _on_stdout read and the signals it emitted

vars ==
  <<current_tab, tabs, mesh_file_path, process, procs, temp_files,
    disk, closed, emitted, last_chunk, gen_in, gen_out, home, request, pipe>>

\* what only the user changes
input_vars == <<current_tab, mesh_file_path>>

gui_vars == <<input_vars, tabs>>

gen_vars == <<gen_in, gen_out>>

(***************************************************************************)
(* Bounds.                                                                 *)
(***************************************************************************)
\* render requests the renderer accepts in one session
MaxRenders == 2

\* waitForStarted calls that time out in one session
MaxTimeouts == 1

\* pieces a chunk of child output is put together from
MaxPieces == 4

(***************************************************************************)
(* The render child process: gui/utils/render_subprocess.py.               *)
(***************************************************************************)
NoFile == [missing |-> TRUE]

Text(line) == line \o <<"\n">>

\* log(message) prints the line "LOG:[HH:MM:SS] message"; T stands for the
\* time of day and one letter for the message
log(letter) == Text(LOG_TAG \o <<"[", "T", "]", " ", letter>>)

DigitChar(d) ==
  CASE d = 0 -> "0" [] d = 1 -> "1" [] d = 2 -> "2" [] d = 3 -> "3" [] d = 4 -> "4"
    [] d = 5 -> "5" [] d = 6 -> "6" [] d = 7 -> "7" [] d = 8 -> "8" [] d = 9 -> "9"

RECURSIVE Decimal(_)
\* str(n) for a natural number
Decimal(n) == IF n < 10 THEN <<DigitChar(n)>> ELSE Decimal(n \div 10) \o <<DigitChar(n % 10)>>

\* progress(value) prints the line "PROGRESS:value"
progress(value) == Text(PROGRESS_TAG \o Decimal(value))

\* a print call waiting in the pipe: the function called and its argument
\* (raw: bytes written to stdout directly)
Call(fn, arg) == [fn |-> fn, arg |-> arg]

RECURSIVE Bytes(_)
\* the bytes a sequence of print calls puts into the pipe
Bytes(calls) ==
  IF calls = <<>> THEN <<>>
  ELSE (CASE calls[1].fn = "log" -> log(calls[1].arg[1])
          [] calls[1].fn = "progress" -> progress(calls[1].arg[1])
          [] OTHER -> calls[1].arg) \o Bytes(Tail(calls))

\* a child that was just exec'ed with argc = len(sys.argv)
NewChild(argc, scene_file) ==
  [pc |-> "argv", argc |-> argc, scene_file |-> scene_file,
   exit |-> -1,          \* exit status, -1 while the child is alive
   out |-> <<>>,         \* the print calls whose bytes the parent has not read
   printed |-> <<>>,     \* the PROGRESS values printed so far
   err |-> FALSE,        \* an ERROR: line was written to stderr
   raised |-> "none",    \* the statement group that made main exit with 1
   saved |-> FALSE,      \* img.save(output_file) returned
   params |-> <<>>,      \* data['params'] once the scene file is read
   spp |-> 0]            \* the spp mi.render was called with, 0 before the call

\* log(letter), with flush
Log(c, letter) == [c EXCEPT !.out = Append(@, Call("log", <<letter>>))]

\* progress(value), with flush
Progress(c, value) ==
  [c EXCEPT !.out = Append(@, Call("progress", <<value>>)),
            !.printed = Append(@, value)]

\* ChildFail leaving with exit status 0
ChildFail_exit0(c) == [c EXCEPT !.pc = "done", !.err = TRUE, !.exit = 0, !.raised = c.pc]

\* the except branch of main, and the argument check: ERROR: line, exit 1
ChildFail(c) == [c EXCEPT !.pc = "done", !.err = TRUE, !.exit = 1, !.raised = c.pc]

\* ChildMain printing PROGRESS:80 before the render call, not after it
ChildMain_progress_before_render(c, ok, files) ==
  CASE c.pc = "argv" ->
         IF c.argc # 3 THEN ChildFail(c) ELSE [c EXCEPT !.pc = "import"]
    [] c.pc = "import" ->
         IF ok THEN [Log(c, "I") EXCEPT !.pc = "read"] ELSE ChildFail(Log(c, "I"))
    [] c.pc = "read" ->
         IF ok /\ files[c.scene_file] # NoFile
         THEN [Log(c, "L") EXCEPT !.pc = "variant", !.params = files[c.scene_file].params]
         ELSE ChildFail(Log(c, "L"))
    [] c.pc = "variant" ->
         IF ok THEN [Progress(Log(c, "V"), 5) EXCEPT !.pc = "preprocess"]
         ELSE ChildFail(Log(c, "V"))
    [] c.pc = "preprocess" ->
         IF ok THEN [Progress(Log(c, "P"), 10) EXCEPT !.pc = "load"]
         ELSE ChildFail(Log(c, "P"))
    [] c.pc = "load" ->
         IF ok THEN [Progress(Log(c, "S"), 20) EXCEPT !.pc = "render"]
         ELSE ChildFail(Log(c, "S"))
    [] c.pc = "render" ->
         LET d == [Progress(Progress(Log(c, "R"), 30), 80)
                     EXCEPT !.spp = Get(c.params, "spp", 256)]
         IN IF ok THEN [d EXCEPT !.pc = "save"] ELSE ChildFail(d)
    [] c.pc = "save" ->
         IF ok THEN [Progress(Log(c, "W"), 100) EXCEPT !.pc = "cleanup", !.saved = TRUE]
         ELSE ChildFail(Log(c, "W"))
    [] c.pc = "cleanup" ->
         IF ok THEN [Log(c, "C") EXCEPT !.pc = "done", !.exit = 0]
         ELSE ChildFail(Log(c, "C"))

\* one statement group of main; ok tells whether the external call in it
\* (import, open, set_variant, load_dict, render, save, unlink) returns
ChildMain(c, ok, files) ==
  CASE c.pc = "argv" ->
         IF c.argc # 3 THEN ChildFail(c) ELSE [c EXCEPT !.pc = "import"]
    [] c.pc = "import" ->
         IF ok THEN [Log(c, "I") EXCEPT !.pc = "read"] ELSE ChildFail(Log(c, "I"))
    [] c.pc = "read" ->
         IF ok /\ files[c.scene_file] # NoFile
         THEN [Log(c, "L") EXCEPT !.pc = "variant", !.params = files[c.scene_file].params]
         ELSE ChildFail(Log(c, "L"))
    [] c.pc = "variant" ->
         IF ok THEN [Progress(Log(c, "V"), 5) EXCEPT !.pc = "preprocess"]
         ELSE ChildFail(Log(c, "V"))
    [] c.pc = "preprocess" ->
         IF ok THEN [Progress(Log(c, "P"), 10) EXCEPT !.pc = "load"]
         ELSE ChildFail(Log(c, "P"))
    [] c.pc = "load" ->
         IF ok THEN [Progress(Log(c, "S"), 20) EXCEPT !.pc = "render"]
         ELSE ChildFail(Log(c, "S"))
    [] c.pc = "render" ->
         LET d == [Progress(Log(c, "R"), 30) EXCEPT !.spp = Get(c.params, "spp", 256)]
         IN IF ok THEN [Progress(d, 80) EXCEPT !.pc = "save"] ELSE ChildFail(d)
    [] c.pc = "save" ->
         IF ok THEN [Progress(Log(c, "W"), 100) EXCEPT !.pc = "cleanup", !.saved = TRUE]
         ELSE ChildFail(Log(c, "W"))
    [] c.pc = "cleanup" ->
         IF ok THEN [Log(c, "C") EXCEPT !.pc = "done", !.exit = 0]
         ELSE ChildFail(Log(c, "C"))

\* Path(scene_file).unlink(missing_ok=True) of a successful child
ChildUnlink(c, ok, files) ==
  IF c.pc = "cleanup" /\ ok THEN [files EXCEPT ![c.scene_file] = NoFile] ELSE files

\* the statement groups of main whose external call can fail
ChildStages ==
  {"import", "read", "variant", "preprocess", "load", "render", "save", "cleanup"}

RECURSIVE ChildRun(_, _, _)
\* the child runs on until it is inside mi.render or has exited; fail_at
\* names the statement group that raises, "none" when none does.  The
\* result is the child and the files it leaves.
ChildRun(c, fail_at, files) ==
  LET ok == c.pc # fail_at
      d == ChildMain(c, ok, files)
      left == ChildUnlink(c, ok, files)
  IN IF d.exit # -1 \/ d.pc = "render" THEN [child |-> d, files |-> left]
     ELSE ChildRun(d, fail_at, left)

\* the exit status QProcess reports for a child ended by terminate()
TerminatedExit == 15

\* the exit status QProcess reports for a child ended by kill()
KilledExit == 9

(***************************************************************************)
(* Tabs: gui/tabs.  A session has the Home tab and three of the scene      *)
(* tabs; a single render request is followed from each of the seven.       *)
(***************************************************************************)
TabNames == {"home", "glass", "mesh", "inverse"}

SceneTabs == TabNames \ {"home"}

\* the scene tabs launch_gui.py adds to the main window
AllSceneTabs == {"basic", "materials", "lighting", "glass", "cornell", "mesh", "inverse"}

AllTabNames == AllSceneTabs \cup {"home"}

\* BaseTab.set_rendering_state: the widget state it leaves the tab in
set_rendering_state(is_rendering) ==
  [is_rendering |-> is_rendering, render_btn |-> ~is_rendering,
   cancel_btn |-> is_rendering, progress_bar |-> is_rendering]

get_default_params(t) ==
  CASE t \in {"glass", "cornell"} ->
         [spp |-> 512, integrator |-> "path", variant |-> "scalar_rgb"]
    [] t \in {"mesh", "basic", "materials", "lighting"} ->
         [spp |-> 256, integrator |-> "path", variant |-> "scalar_rgb"]
    [] t = "inverse" -> [spp |-> 256, integrator |-> "path", variant |-> "llvm_ad_rgb"]
    [] OTHER -> <<>>

\* the tab's parameter widgets keep their default values
get_scene_dict(t, params, mesh) ==
  CASE t = "glass" ->
         GlassDemoGenerator_generate(
           [width |-> Get(params, "width", 800), height |-> Get(params, "height", 600),
            glass_type |-> "sphere", glass_tint |-> "clear",
            background_type |-> "white", show_caustics |-> TRUE])
    [] t = "mesh" ->
         IF mesh = "" THEN Raised("ValueError")
         ELSE CustomMeshGenerator_generate(
                [width |-> Get(params, "width", 800),
                 height |-> Get(params, "height", 600),
                 mesh_file |-> mesh, material_type |-> "diffuse",
                 use_ground |-> TRUE, light_type |-> "point"])
    [] t = "inverse" -> Raised("NotImplementedError")
    [] t = "basic" ->
         BasicSceneGenerator_generate(
           [width |-> Get(params, "width", 800), height |-> Get(params, "height", 600),
            material_type |-> "diffuse"])
    [] t = "cornell" ->
         CornellBoxGenerator_generate(
           [width |-> Get(params, "width", 800), height |-> Get(params, "height", 800)])
    [] t = "lighting" ->
         LightingTechniquesGenerator_generate(
           [width |-> Get(params, "width", 800), height |-> Get(params, "height", 600),
            lighting_type |-> "three_point", object_type |-> "sphere",
            object_material |-> "plastic"])
    [] t = "materials" ->
         ("type" :> "scene") @@ ("integrator" :> Integrator(0))
           @@ ("sensor" :> Sensor(50, Get(params, "width", 1200),
                                  Get(params, "height", 400)))
           @@ ("ground" :> Shape("rectangle", "diffuse"))
           @@ ("light" :> [type |-> "rectangle", emitter |-> "area"])
           @@ ("sphere_diffuse" :> Shape("sphere", "diffuse"))
           @@ ("sphere_plastic" :> Shape("sphere", "plastic"))
           @@ ("sphere_conductor" :> Shape("sphere", "roughconductor"))
           @@ ("sphere_dielectric" :> Shape("sphere", "dielectric"))
           @@ ("sphere_rough_conductor" :> Shape("sphere", "roughconductor"))
    [] OTHER -> <<>>

get_output_filename(t, mesh) ==
  CASE t = "glass" -> "glass_sphere_ior1.50.png"
    [] t = "mesh" -> IF mesh # "" THEN "custom_mesh_model.png" ELSE "custom_mesh.png"
    [] t = "inverse" -> "inverse_rendering_demo.png"
    [] t = "basic" -> "basic_scene.png"
    [] t = "cornell" -> "cornell_box.png"
    [] t = "lighting" -> "lighting_three_point.png"
    [] t = "materials" -> "materials_showcase.png"
    [] OTHER -> "home.png"

(***************************************************************************)
(* Handlers.  A handler maps the world w (the fields a handler may change) *)
(* to the world it leaves; nested signal deliveries are direct calls, as   *)
(* with Qt's direct connections.                                           *)
(***************************************************************************)
\* a signal emission: the signal, a number (the process it is about, or the
\* progress value) and words (message, tab or file name)
Sig(sig, val, msg) == [sig |-> sig, val |-> val, msg |-> msg]

Emit(w, s) == [w EXCEPT !.emitted = Append(@, s)]

RECURSIVE EmitAll(_, _)
EmitAll(w, sigs) == IF sigs = <<>> THEN w ELSE EmitAll(Emit(w, sigs[1]), Tail(sigs))

\* MainWindow._on_render_complete: resets the tab that is selected now
MainWindow_on_render_complete(w) ==
  [w EXCEPT !.tabs[w.current_tab] = set_rendering_state(FALSE)]

\* MainWindow._on_render_failed: resets the tab that is selected now
MainWindow_on_render_failed(w) ==
  [w EXCEPT !.tabs[w.current_tab] = set_rendering_state(FALSE)]

\* render_complete.emit for the request of process i
render_complete_emit(w, i) ==
  MainWindow_on_render_complete(
    [Emit(w, Sig("render_complete", i, <<>>)) EXCEPT !.procs[i].n_complete = @ + 1])

\* render_failed.emit for the request of process i
render_failed_emit(w, i, msg) ==
  MainWindow_on_render_failed(
    [Emit(w, Sig("render_failed", i, <<msg>>)) EXCEPT !.procs[i].n_failed = @ + 1])

\* the child of QProcess p exists as an operating-system process
Alive(p) == p.child.pc # "nostart" /\ p.child.exit = -1

\* QProcess(self) before start(); n_complete and n_failed count the terminal
\* signals emitted for its request
NewProc(t, output_name, scene_file) ==
  [state |-> "NotRunning", exit_code |-> 0, tab |-> t, output_name |-> output_name,
   timed_out |-> FALSE, n_complete |-> 0, n_failed |-> 0,
   child |-> [NewChild(3, scene_file) EXCEPT !.pc = "nostart"]]

StartOutcomes == {"started", "failed", "timeout"}

\* a QProcess that may still deliver a signal.  The others are inert once
\* self.process is rebound, and the model forgets them then.
Unfinished(p) == p.state # "NotRunning"

\* SubprocessRenderer.render_scene; outcome is what start() and
\* waitForStarted(3000) come to
render_scene(w, scene_dict, params, output_filename, t, outcome) ==
  IF w.process # 0 /\ w.procs[w.process].state = "Running"
  THEN Emit(w, Sig("log_message", 0, <<"Render already in progress">>))
  ELSE
    LET temp == Len(w.disk) + 1
        kept == SelectSeq(w.procs, Unfinished)
        i == Len(kept) + 1
        p == NewProc(t, output_filename, temp)
        q == CASE outcome = "started" -> [p EXCEPT !.state = "Running", !.child.pc = "argv"]
               [] outcome = "timeout" ->
                    [p EXCEPT !.state = "Starting", !.child.pc = "argv",
                              !.timed_out = TRUE]
               [] OTHER -> p
        w1 == [w EXCEPT !.disk = Append(@, [scene_dict |-> scene_dict, params |-> params]),
                        !.temp_files = Append(@, temp),
                        !.procs = Append(kept, q),
                        !.process = i]
        w2 == Emit(w1, Sig("log_message", 0, <<"Starting render process...">>))
    IN IF outcome = "started" THEN w2
       ELSE render_failed_emit(
              Emit(w2, Sig("log_message", 0, <<"Failed to start render">>)),
              i, "Failed to start render process")

\* AppConfig.default_spp, the value the Home tab's spp spin box starts with
default_spp == 256

\* the Home tab's widgets as setup_ui leaves them: the defaults of AppConfig
HomeDefaults ==
  [width |-> 800, height |-> 600, spp |-> default_spp, variant |-> "scalar_rgb",
   auto_scroll |-> TRUE]

\* HomeTab.get_current_settings, h the Home tab's widgets
get_current_settings(h) ==
  [resolution |-> <<h.width, h.height>>, spp |-> h.spp, variant |-> h.variant,
   auto_scroll |-> h.auto_scroll]

\* merged_params with the global spp taking precedence over the tab's
merged_params_global_spp(params, global_settings) ==
  [spp |-> global_settings.spp,
   variant |-> Get(params, "variant", global_settings.variant),
   integrator |-> Get(params, "integrator", "path")]

\* merged_params passing on every key of the tab's params
merged_params_all_keys(params, global_settings) ==
  params @@ [spp |-> global_settings.spp, variant |-> global_settings.variant,
             integrator |-> "path"]

\* the merge of the tab's params with the global settings
merged_params(params, global_settings) ==
  [spp |-> Get(params, "spp", global_settings.spp),
   variant |-> Get(params, "variant", global_settings.variant),
   integrator |-> Get(params, "integrator", "path")]

\* MainWindow._on_render_requested
MainWindow_on_render_requested(w, scene_dict, params, output_name, t, h, outcome) ==
  render_scene(w, scene_dict, merged_params(params, get_current_settings(h)),
               output_name, t, outcome)

\* _on_render_clicked entering the rendering state before it prepares the
\* scene
BaseTab_on_render_clicked_state_first(w, t, mesh, h, outcome) ==
  LET params == get_default_params(t)
      scene_dict == get_scene_dict(t, params, mesh)
      output_name == get_output_filename(t, mesh)
      w0 == [w EXCEPT !.tabs[t] = set_rendering_state(TRUE)]
  IN IF IsRaised(scene_dict)
     THEN Emit(w0, Sig("log_message", 0, <<"Error: Failed to prepare scene", t>>))
     ELSE
       LET w1 == MainWindow_on_render_requested(
                   Emit(w0, Sig("render_requested", 0, <<output_name>>)),
                   scene_dict, params, output_name, t, h, outcome)
       IN Emit(w1, Sig("log_message", 0, <<"Starting render", t>>))

\* BaseTab._on_render_clicked of tab t
BaseTab_on_render_clicked(w, t, mesh, h, outcome) ==
  LET params == get_default_params(t)
      scene_dict == get_scene_dict(t, params, mesh)
      output_name == get_output_filename(t, mesh)
  IN IF IsRaised(scene_dict)
     THEN Emit(w, Sig("log_message", 0, <<"Error: Failed to prepare scene", t>>))
     ELSE
       LET w1 == MainWindow_on_render_requested(
                   Emit(w, Sig("render_requested", 0, <<output_name>>)),
                   scene_dict, params, output_name, t, h, outcome)
           w2 == [w1 EXCEPT !.tabs[t] = set_rendering_state(TRUE)]
       IN Emit(w2, Sig("log_message", 0, <<"Starting render", t>>))

\* BaseTab._on_cancel_clicked
BaseTab_on_cancel_clicked(w, t) ==
  Emit(w, Sig("log_message", 0, <<"Cancelling render", t>>))

\* SubprocessRenderer._on_stdout: it reads the pipe of self.process
SubprocessRenderer_on_stdout(w) ==
  IF w.process = 0 THEN w
  ELSE LET data == Bytes(w.procs[w.process].child.out)
       IN EmitAll([w EXCEPT !.procs[w.process].child.out = <<>>, !.chunk = data],
                  StdoutSignals(data))

\* SubprocessRenderer._on_finished(output_path of process i): it asks
\* self.process for the exit code; load_ok tells whether Image.open succeeds
SubprocessRenderer_on_finished(w, i, load_ok) ==
  IF w.process = 0 THEN w
  ELSE IF w.procs[w.process].exit_code = 0 THEN
    IF load_ok
    THEN render_complete_emit(Emit(w, Sig("log_message", 0, <<"Render complete">>)), i)
    ELSE render_failed_emit(w, i, "Failed to load image")
  ELSE render_failed_emit(Emit(w, Sig("log_message", 0, <<"Render failed">>)),
                          i, "Render failed with exit code")

\* what is left of a child once QProcess has collected its exit status
Reaped(c) == [NewChild(c.argc, c.scene_file) EXCEPT !.pc = "done", !.exit = c.exit]

\* QProcess noticing that the child of process i is gone: the rest of the
\* pipe is delivered, the state becomes NotRunning and finished is emitted
ProcessDied(w, i, load_ok) ==
  LET w1 == IF w.procs[i].child.out # <<>>
            THEN SubprocessRenderer_on_stdout(
                   Emit(w, Sig("readyReadStandardOutput", i, <<>>)))
            ELSE w
      w2 == [w1 EXCEPT !.procs[i].state = "NotRunning",
                       !.procs[i].exit_code = w.procs[i].child.exit,
                       !.procs[i].child = Reaped(w.procs[i].child)]
  IN SubprocessRenderer_on_finished(Emit(w2, Sig("finished", i, <<>>)), i, load_ok)

\* terminate(), waitForFinished, and kill() when the child did not go within
\* the wait (term_ok = FALSE); a child that already exited keeps its status
StopProcess(w, i, term_ok, load_ok) ==
  LET status == IF term_ok THEN TerminatedExit ELSE KilledExit
      w1 == IF Alive(w.procs[i])
            THEN [w EXCEPT !.procs[i].child.exit = status, !.procs[i].child.pc = "done"]
            ELSE w
  IN ProcessDied(w1, i, load_ok)

\* SubprocessRenderer.cancel_render
cancel_render(w, term_ok, load_ok) ==
  IF w.process # 0 /\ w.procs[w.process].state = "Running"
  THEN Emit(StopProcess(w, w.process, term_ok, load_ok),
            Sig("log_message", 0, <<"Render cancelled">>))
  ELSE w

RECURSIVE Unlink(_, _)
Unlink(files, names) ==
  IF names = <<>> THEN files
  ELSE Unlink([files EXCEPT ![names[1]] = NoFile], Tail(names))

\* cleanup forgetting the recorded files without deleting them
cleanup_forgets_files(w, term_ok, load_ok) ==
  LET w1 == IF w.process # 0 /\ w.procs[w.process].state = "Running"
            THEN StopProcess(w, w.process, term_ok, load_ok) ELSE w
  IN [w1 EXCEPT !.process = 0, !.temp_files = <<>>]

\* SubprocessRenderer.cleanup
cleanup(w, term_ok, load_ok) ==
  LET w1 == IF w.process # 0 /\ w.procs[w.process].state = "Running"
            THEN StopProcess(w, w.process, term_ok, load_ok) ELSE w
  IN [w1 EXCEPT !.process = 0, !.disk = Unlink(@, w.temp_files), !.temp_files = <<>>]

\* MainWindow.closeEvent; reply is the user's answer to the question box.
\* The result also tells whether the event was accepted.
closeEvent(w, reply, term_ok, load_ok) ==
  IF w.process = 0 THEN [w |-> w, accepted |-> TRUE]
  ELSE IF w.procs[w.process].state = "Running" THEN
    LET asked == Emit(w, Sig("question", 0, <<"Cancel and quit?", reply>>))
    IN IF reply = "Yes"
       THEN [w |-> cleanup(cancel_render(asked, term_ok, load_ok), term_ok, load_ok),
             accepted |-> TRUE]
       ELSE [w |-> asked, accepted |-> FALSE]
  ELSE [w |-> cleanup(w, term_ok, load_ok), accepted |-> TRUE]

(***************************************************************************)
(* Events of the GUI session.                                              *)
(***************************************************************************)

\* the world an event finds, with the trigger of the event emitted
World(trigger) ==
  [current_tab |-> current_tab, tabs |-> tabs, process |-> process, procs |-> procs,
   temp_files |-> temp_files, disk |-> disk, chunk |-> <<>>, emitted |-> <<trigger>>]

\* the event was handled and left the world w
Handled(w) ==
  /\ tabs' = w.tabs
  /\ process' = w.process
  /\ procs' = w.procs
  /\ temp_files' = w.temp_files
  /\ disk' = w.disk
  /\ last_chunk' = w.chunk
  /\ emitted' = w.emitted

\* render_scene would create a process for a Render click on tab t
Accepts(t) ==
  /\ ~IsRaised(get_scene_dict(t, get_default_params(t), mesh_file_path))
  /\ ~(process # 0 /\ procs[process].state = "Running")

\* processes whose start timed out and that have not finished yet
Timeouts == Cardinality({i \in DOMAIN procs : procs[i].timed_out /\ Unfinished(procs[i])})

\* whether Image.open succeeds, where _on_finished for process i gets to it
LoadOutcomes(i) ==
  IF i # 0 /\ process # 0
       /\ (IF i = process THEN procs[i].child.exit ELSE procs[process].exit_code) = 0
  THEN BOOLEAN ELSE {TRUE}

Running == process # 0 /\ procs[process].state = "Running"

\* the user's answers to the question box, where closeEvent shows it
Replies == IF Running THEN {"Yes", "No"} ELSE {"Yes"}

\* whether terminate() ends the child within the wait, where it is called
StopOutcomes == IF Running /\ Alive(procs[process]) THEN BOOLEAN ELSE {TRUE}

\* the user selects another tab
SwitchTab(t) ==
  /\ ~closed /\ t # current_tab
  /\ current_tab' = t
  /\ emitted' = <<>>
  /\ last_chunk' = <<>>
  /\ UNCHANGED <<tabs, mesh_file_path, process, procs, temp_files, disk, closed, gen_vars, home, request, pipe>>

\* CustomMeshTab._on_browse_clicked with a file chosen
BrowseMesh ==
  /\ ~closed /\ current_tab = "mesh" /\ mesh_file_path = ""
  /\ mesh_file_path' = ".obj"
  /\ emitted' = <<>>
  /\ last_chunk' = <<>>
  /\ UNCHANGED <<current_tab, tabs, process, procs, temp_files, disk, closed, gen_vars, home, request, pipe>>

\* a click on the enabled Render button of the selected tab
RenderClicked(t) ==
  /\ ~closed /\ current_tab = t /\ tabs[t].render_btn
  /\ Accepts(t) => Len(disk) < MaxRenders
  /\ \E outcome \in StartOutcomes :
       /\ outcome = "timeout" /\ Accepts(t) => Timeouts < MaxTimeouts
       /\ Handled(BaseTab_on_render_clicked(
                    World(Sig("clicked", 0, <<"render_btn", t>>)),
                    t, mesh_file_path, home, outcome))
  /\ UNCHANGED <<input_vars, closed, gen_vars, home, request, pipe>>

\* a click on the enabled Cancel button of the selected tab
CancelClicked(t) ==
  /\ ~closed /\ current_tab = t /\ tabs[t].cancel_btn
  /\ Handled(BaseTab_on_cancel_clicked(World(Sig("clicked", 0, <<"cancel_btn", t>>)), t))
  /\ UNCHANGED <<input_vars, closed, gen_vars, home, request, pipe>>

\* the child of process i runs its next statement group
ChildStep(i) ==
  /\ ~closed /\ Alive(procs[i])
  /\ \E ok \in BOOLEAN :
       /\ procs' = [procs EXCEPT ![i].child = ChildMain(@, ok, disk)]
       /\ disk' = ChildUnlink(procs[i].child, ok, disk)
  /\ emitted' = <<>>
  /\ last_chunk' = <<>>
  /\ UNCHANGED <<gui_vars, process, temp_files, closed, gen_vars, home, request, pipe>>

\* the statement groups a child of the session fails in: the scene file is
\* gone or unreadable, or the renderer raises; every group is a failure
\* point of the child taken alone
SessionFailures == {"read", "render"}

\* the child of process i runs until it is rendering or has exited
ChildRuns(i) ==
  /\ ~closed /\ Alive(procs[i])
  /\ \E fail_at \in SessionFailures \cup {"none"} :
       LET r == ChildRun(procs[i].child, fail_at, disk)
       IN /\ procs' = [procs EXCEPT ![i].child = r.child]
          /\ disk' = r.files
  /\ emitted' = <<>>
  /\ last_chunk' = <<>>
  /\ UNCHANGED <<gui_vars, process, temp_files, closed, gen_vars, home, request, pipe>>

\* the start notification of a process whose waitForStarted timed out
ProcStarted(i) ==
  /\ ~closed /\ procs[i].state = "Starting"
  /\ procs' = [procs EXCEPT ![i].state = "Running"]
  /\ emitted' = <<>>
  /\ last_chunk' = <<>>
  /\ UNCHANGED <<gui_vars, process, temp_files, disk, closed, gen_vars, home, request, pipe>>

\* readyReadStandardOutput of process i is delivered: unread bytes are in
\* its pipe
OnStdout(i) ==
  /\ ~closed /\ procs[i].state = "Running" /\ procs[i].child.out # <<>>
  /\ Handled(SubprocessRenderer_on_stdout(
               World(Sig("readyReadStandardOutput", i, <<>>))))
  /\ UNCHANGED <<input_vars, closed, gen_vars, home, request, pipe>>

\* the event loop notices that the child of process i has exited
ProcFinished(i) ==
  /\ ~closed /\ procs[i].state = "Running" /\ procs[i].child.exit # -1
  /\ \E load_ok \in LoadOutcomes(i) :
       Handled(ProcessDied(World(Sig("processDied", i, <<>>)), i, load_ok))
  /\ UNCHANGED <<input_vars, closed, gen_vars, home, request, pipe>>

\* the user asks to close the main window
CloseRequested ==
  /\ ~closed
  /\ \E reply \in Replies, term_ok \in StopOutcomes, load_ok \in LoadOutcomes(process) :
       LET r == closeEvent(World(Sig("closeEvent", 0, <<>>)), reply, term_ok, load_ok)
       IN /\ Handled(r.w)
          /\ closed' = r.accepted
  /\ UNCHANGED <<input_vars, gen_vars, home, request, pipe>>

NoGen == [gen |-> "none", params |-> <<>>, scene |-> <<>>, called |-> FALSE]

\* no render_requested signal is delivered on its own
NoRequest == [scene_dict |-> <<>>, params |-> <<>>, output_name |-> "", called |-> TRUE]

\* no print call and no notification watched
NoPipe == [written |-> <<>>, deliveries |-> <<>>]

Init ==
  /\ current_tab = "home"
  /\ tabs = [t \in TabNames |-> set_rendering_state(FALSE)]
  /\ mesh_file_path = ""
  /\ process = 0
  /\ procs = <<>>
  /\ temp_files = <<>>
  /\ disk = <<>>
  /\ closed = FALSE
  /\ emitted = <<>>
  /\ last_chunk = <<>>
  /\ gen_in = NoGen
  /\ gen_out = NoGen
  /\ home = HomeDefaults
  /\ request = NoRequest
  /\ pipe = NoPipe

\* the session: every GUI event, the children and the process notifications;
\* a child's output is delivered when its exit is handled
Next ==
  \/ \E t \in TabNames : SwitchTab(t)
  \/ BrowseMesh
  \/ \E t \in SceneTabs : RenderClicked(t)
  \/ \E t \in SceneTabs : CancelClicked(t)
  \/ \E i \in DOMAIN procs : ChildRuns(i)
  \/ \E i \in DOMAIN procs : ProcStarted(i)
  \/ \E i \in DOMAIN procs : ProcFinished(i)
  \/ CloseRequested

Spec == Init /\ [][Next]_vars

TypeOK ==
  /\ current_tab \in TabNames
  /\ process \in 0..Len(procs)
  /\ Len(disk) <= MaxRenders


(***************************************************************************)
(* The session with the renderer's cancel_render called on its own, as its *)
(* caller closeEvent calls it but without the cleanup that follows there.  *)
(***************************************************************************)
\* renderer.cancel_render() is called
CancelRender ==
  /\ ~closed
  /\ \E term_ok \in StopOutcomes, load_ok \in LoadOutcomes(process) :
       Handled(cancel_render(World(Sig("cancel_render", 0, <<>>)), term_ok, load_ok))
  /\ UNCHANGED <<input_vars, closed, gen_vars, home, request, pipe>>

NextCancel == Next \/ CancelRender

SpecCancel == Init /\ [][NextCancel]_vars

(***************************************************************************)
(* The child alone: main of render_subprocess.py, statement group by       *)
(* statement group, under every argv length, scene file and failure.       *)
(***************************************************************************)
\* the params a scene file may hold
ChildParams ==
  {[variant |-> "scalar_rgb", integrator |-> "path"]}
    \cup {[spp |-> n, variant |-> "scalar_rgb", integrator |-> "path"] :
            n \in {16, 64, 256, 512}}

\* what may be at the path the child is given
SceneFiles == {NoFile} \cup {[scene_dict |-> "scene", params |-> p] : p \in ChildParams}

\* a started process whose child got argc arguments
ExecedProc(argc) ==
  [NewProc("glass", "out.png", 1) EXCEPT !.state = "Running", !.child = NewChild(argc, 1)]

InitChild ==
  /\ current_tab = "glass"
  /\ tabs = [t \in TabNames |-> set_rendering_state(t = "glass")]
  /\ mesh_file_path = ""
  /\ process = 1
  /\ \E argc \in {2, 3, 4} : procs = <<ExecedProc(argc)>>
  /\ temp_files = <<1>>
  /\ disk \in {<<f>> : f \in SceneFiles}
  /\ closed = FALSE
  /\ emitted = <<>>
  /\ last_chunk = <<>>
  /\ gen_in = NoGen
  /\ gen_out = NoGen
  /\ home = HomeDefaults
  /\ request = NoRequest
  /\ pipe = NoPipe

NextChild == ChildStep(1)

SpecChild == InitChild /\ [][NextChild]_vars

(***************************************************************************)
(* _on_stdout alone: one chunk of bytes is waiting in the pipe of the      *)
(* running process and is handled.                                         *)
(***************************************************************************)
\* a number that does not fit the int argument of progress_updated
TooBig == <<"4", "2", "9", "4", "9", "6", "7", "2", "9", "6">>

\* the pieces chunks are put together from
Pieces ==
  {PROGRESS_TAG, LOG_TAG, <<"5">>, <<"-">>, <<":">>, <<" ">>, <<"x">>, <<"\n">>,
   <<ESC, "[", "0", "m">>, TooBig}

RECURSIVE Flatten(_)
Flatten(ps) == IF ps = <<>> THEN <<>> ELSE ps[1] \o Flatten(Tail(ps))

\* the chunks of at most MaxPieces pieces
Chunks == {Flatten(ps) : ps \in UNION {[1..n -> Pieces] : n \in 1..MaxPieces}}

InitStdout ==
  /\ current_tab = "glass"
  /\ tabs = [t \in TabNames |-> set_rendering_state(t = "glass")]
  /\ mesh_file_path = ""
  /\ process = 1
  /\ \E chunk \in Chunks :
       procs = <<[ExecedProc(3) EXCEPT !.child.out = <<Call("raw", chunk)>>]>>
  /\ temp_files = <<1>>
  /\ disk = <<[scene_dict |-> "scene", params |-> get_default_params("glass")]>>
  /\ closed = FALSE
  /\ emitted = <<>>
  /\ last_chunk = <<>>
  /\ gen_in = NoGen
  /\ gen_out = NoGen
  /\ home = HomeDefaults
  /\ request = NoRequest
  /\ pipe = NoPipe

NextStdout == OnStdout(1)

SpecStdout == InitStdout /\ [][NextStdout]_vars

(***************************************************************************)
(* The pipe alone: the child has printed its lines up to the render call   *)
(* or up to its failure, and the bytes reach _on_stdout over several       *)
(* readyReadStandardOutput notifications, cut at any byte.                 *)
(***************************************************************************)
\* notifications the output of one child arrives in
MaxDeliveries == 2

InitPipe ==
  /\ current_tab = "glass"
  /\ tabs = [t \in TabNames |-> set_rendering_state(t = "glass")]
  /\ mesh_file_path = ""
  /\ process = 1
  /\ \E fail_at \in ChildStages \cup {"none"} :
       LET scene == [scene_dict |-> "scene", params |-> get_default_params("glass")]
           r == ChildRun(NewChild(3, 1), fail_at, <<scene>>)
       IN /\ procs = <<[ExecedProc(3) EXCEPT !.child = r.child]>>
          /\ disk = r.files
          /\ pipe = [written |-> r.child.out, deliveries |-> <<>>]
  /\ temp_files = <<1>>
  /\ closed = FALSE
  /\ emitted = <<>>
  /\ last_chunk = <<>>
  /\ gen_in = NoGen
  /\ gen_out = NoGen
  /\ home = HomeDefaults
  /\ request = NoRequest

\* readyReadStandardOutput of process i with the first n unread bytes in the
\* pipe: readAllStandardOutput returns them, the rest arrives later
PipeDelivers(i) ==
  /\ ~closed /\ procs[i].state = "Running"
  /\ Len(pipe.deliveries) < MaxDeliveries
  /\ LET unread == Bytes(procs[i].child.out)
     IN \E n \in 1..Len(unread) :
          LET arrived == Call("raw", SubSeq(unread, 1, n))
              later == IF n = Len(unread) THEN <<>>
                       ELSE <<Call("raw", SubSeq(unread, n + 1, Len(unread)))>>
              w == [World(Sig("readyReadStandardOutput", i, <<>>))
                      EXCEPT !.procs[i].child.out = <<arrived>>]
              v == SubprocessRenderer_on_stdout(w)
          IN /\ Handled([v EXCEPT !.procs[i].child.out = later])
             /\ pipe' = [pipe EXCEPT !.deliveries =
                           Append(@, [chunk |-> v.chunk, signals |-> Tail(v.emitted)])]
  /\ UNCHANGED <<input_vars, closed, gen_vars, home, request>>

NextPipe == PipeDelivers(1)

SpecPipe == InitPipe /\ [][NextPipe]_vars

(***************************************************************************)
(* The scene generators alone: one generate call on a params mapping.      *)
(***************************************************************************)
RECURSIVE MappingsOver(_, _)
\* the mappings with any subset of keys, each key drawing its value from
\* its set in choices
MappingsOver(choices, keys) ==
  IF keys = {} THEN {<<>>}
  ELSE LET k == CHOOSE x \in keys : TRUE
           rest == MappingsOver(choices, keys \ {k})
       IN rest \cup {(k :> v) @@ m : v \in choices[k], m \in rest}

ParamChoices(gen) ==
  [width |-> {320}, height |-> {240}]
    @@ (CASE gen = "basic" -> [material_type |-> {"conductor", "other"}]
          [] gen = "glass" -> [glass_type |-> {"cube", "wine_glass"},
                               background_type |-> {"gradient", "none"}]
          [] gen = "lighting" -> [lighting_type |-> {"soft", "rim"},
                                  object_type |-> {"both"}]
          [] gen = "mesh" -> [mesh_file |-> {".obj", ".stl"}, light_type |-> {"hdri"}]
          [] OTHER -> <<>>)

GenInputs ==
  UNION {{[gen |-> g, params |-> m, scene |-> <<>>, called |-> FALSE] :
            m \in MappingsOver(ParamChoices(g), DOMAIN ParamChoices(g))} :
         g \in Generators}

InitGen ==
  /\ current_tab = "home"
  /\ tabs = [t \in TabNames |-> set_rendering_state(FALSE)]
  /\ mesh_file_path = ""
  /\ process = 0
  /\ procs = <<>>
  /\ temp_files = <<>>
  /\ disk = <<>>
  /\ closed = FALSE
  /\ emitted = <<>>
  /\ last_chunk = <<>>
  /\ gen_in \in GenInputs
  /\ gen_out = NoGen
  /\ home = HomeDefaults
  /\ request = NoRequest
  /\ pipe = NoPipe

\* generator.generate(params); the generators read params with params.get
\* only, so the caller's mapping is what it was
Generate ==
  /\ ~gen_out.called
  /\ gen_out' = [gen |-> gen_in.gen, params |-> gen_in.params,
                 scene |-> generate(gen_in.gen, gen_in.params), called |-> TRUE]
  /\ UNCHANGED <<gui_vars, process, procs, temp_files, disk, closed, emitted,
                 last_chunk, gen_in, home, request, pipe>>

NextGen == Generate

SpecGen == InitGen /\ [][NextGen]_vars

(***************************************************************************)
(* One render request alone: the Home tab's widgets hold any of a few      *)
(* values, and the Render button of one of the seven scene tabs is clicked *)
(* or a render_requested signal with any params reaches the main window.   *)
(***************************************************************************)
\* values of the Home tab's widgets
HomeChoices ==
  {[width |-> size[1], height |-> size[2], spp |-> n, variant |-> v,
    auto_scroll |-> TRUE] :
     size \in {<<800, 600>>, <<1024, 768>>}, n \in {default_spp, 64},
     v \in {"scalar_rgb", "llvm_rgb"}}

\* the params dicts a render_requested signal may carry
RequestParams ==
  MappingsOver([spp |-> {16}, variant |-> {"cuda_rgb"}, integrator |-> {"direct"},
                width |-> {320}],
               {"spp", "variant", "integrator", "width"})

RequestInputs ==
  {[scene_dict |-> BasicSceneGenerator_generate(<<>>), params |-> m,
    output_name |-> "request.png", called |-> FALSE] : m \in RequestParams}

InitRequest ==
  /\ current_tab \in AllSceneTabs
  /\ tabs = [t \in AllTabNames |-> set_rendering_state(FALSE)]
  /\ mesh_file_path \in {"", ".obj"}
  /\ process = 0
  /\ procs = <<>>
  /\ temp_files = <<>>
  /\ disk = <<>>
  /\ closed = FALSE
  /\ emitted = <<>>
  /\ last_chunk = <<>>
  /\ gen_in = NoGen
  /\ gen_out = NoGen
  /\ home \in HomeChoices
  /\ request \in RequestInputs
  /\ pipe = NoPipe

\* render_requested(scene_dict, params, output_name) is delivered to
\* MainWindow._on_render_requested while no render is in progress
RenderRequested ==
  /\ ~closed /\ ~request.called /\ ~Running /\ Len(disk) < MaxRenders
  /\ \E outcome \in StartOutcomes :
       Handled(MainWindow_on_render_requested(
                 World(Sig("render_requested", 0, <<request.output_name>>)),
                 request.scene_dict, request.params, request.output_name,
                 current_tab, home, outcome))
  /\ request' = [request EXCEPT !.called = TRUE]
  /\ UNCHANGED <<input_vars, closed, gen_vars, home, pipe>>

NextRequest ==
  \/ \E t \in AllSceneTabs : RenderClicked(t)
  \/ RenderRequested

SpecRequest == InitRequest /\ [][NextRequest]_vars


(***************************************************************************)
(* Properties of the render session.                                       *)
(***************************************************************************)
\* the event handled last was a click on a button of tab t
Clicked(button, t) ==
  emitted # <<>> /\ emitted[1] = Sig("clicked", 0, <<button, t>>)

\* the signals named sig among those emitted while handling the last event
Emitted(sig) == {k \in 1..Len(emitted) : emitted[k].sig = sig}

LiveChildren == {i \in DOMAIN procs : Alive(procs[i])}

\* C1: a SubprocessRenderer never has more than one render child process
\* alive at a time, whatever render, start and finish events came before.
C1_AtMostOneChildAlive == Cardinality(LiveChildren) <= 1

\* C2: a click on a tab's Cancel button while the render requested from that
\* tab is running kills the child: once the click is handled the child is
\* not running any more.
C2_CancelKillsChild ==
  [][\A t \in SceneTabs : \A i \in DOMAIN procs :
       (/\ Clicked("cancel_btn", t)'
        /\ procs[i].tab = t /\ procs[i].state = "Running" /\ Alive(procs[i]))
       => ~Alive(procs'[i])]_vars

\* C3: every render request render_scene accepted gets exactly one terminal
\* signal: never two, one once its process is over, and render_complete only
\* with exit code 0.
C3_ExactlyOneTerminalSignal ==
  \A i \in DOMAIN procs :
    LET p == procs[i]
    IN /\ p.n_complete + p.n_failed <= 1
       /\ p.state = "NotRunning" => p.n_complete + p.n_failed = 1
       /\ p.n_complete = 1 => p.state = "NotRunning" /\ p.exit_code = 0

\* the arguments check and the statement groups before the final cleanup
EarlyStages == (ChildStages \cup {"argv"}) \ {"cleanup"}

Printed(c) == {c.printed[k] : k \in 1..Len(c.printed)}

\* C4: the child exits with 0 only after it saved the image and printed
\* PROGRESS:100; a wrong argument count or an exception up to and including
\* the save makes it exit with 1 after an ERROR: line on stderr and without
\* PROGRESS:100 printed.
C4_ChildExitCode ==
  \A i \in DOMAIN procs :
    LET c == procs[i].child
    IN /\ c.exit \in {-1, 0, 1}
       /\ c.exit = 0 => c.saved /\ 100 \in Printed(c) /\ ~c.err /\ c.raised = "none"
       /\ c.argc # 3 /\ c.pc # "argv" => c.raised = "argv"
       /\ c.raised # "none" => c.exit = 1 /\ c.err
       /\ c.raised \in EarlyStages => 100 \notin Printed(c)
       /\ c.raised \in EarlyStages \ {"save"} => ~c.saved

C4_Witness ==
  \E i \in DOMAIN procs :
    /\ procs[i].child.exit = 0 /\ procs[i].child.saved
    /\ procs[i].child.printed = <<5, 10, 20, 30, 80, 100>>

\* the PROGRESS values of a complete run, in the order main prints them
ProgressSteps == <<5, 10, 20, 30, 80, 100>>

\* mi.render(scene, spp=spp) has returned in child c
RenderReturned(c) ==
  \/ c.pc \in {"save", "cleanup"}
  \/ c.pc = "done" /\ c.argc = 3 /\ c.raised \in {"none", "save", "cleanup"}

\* what every run of the child keeps to: the values printed so far are the
\* first ones of ProgressSteps, 80 comes after the render call returned and
\* 100 after the image was saved
ProgressInOrder(c) ==
  /\ Len(c.printed) <= Len(ProgressSteps)
  /\ c.printed = SubSeq(ProgressSteps, 1, Len(c.printed))
  /\ 80 \in Printed(c) => RenderReturned(c)
  /\ 100 \in Printed(c) => c.saved

\* C12 as claimed: in one run of the child the PROGRESS values are printed
\* in the order 5, 10, 20, 30, 80, 100, each at most once, 80 only after
\* the render call returned and 100 only after the image was saved, and a
\* failing run prints a proper prefix of the sequence.
C12_FailingRunProperPrefix ==
  \A i \in DOMAIN procs :
    LET c == procs[i].child
    IN /\ ProgressInOrder(c)
       /\ c.exit = 1 => Len(c.printed) < Len(ProgressSteps)

\* C12 as amended: as above, but a failing run prints a prefix that is
\* proper unless the run failed after the save, in the final log and unlink,
\* and then it has printed the whole sequence.
C12_ProgressPrefix ==
  \A i \in DOMAIN procs :
    LET c == procs[i].child
    IN /\ ProgressInOrder(c)
       /\ c.exit = 1 /\ c.raised # "cleanup" => Len(c.printed) < Len(ProgressSteps)
       /\ c.exit = 1 /\ c.raised = "cleanup" => c.printed = ProgressSteps

C12_Witness ==
  \E i \in DOMAIN procs :
    /\ procs[i].child.exit = 1 /\ procs[i].child.raised = "render"
    /\ procs[i].child.printed = <<5, 10, 20, 30>>

\* C6: the spp the child calls the renderer with is the spp of the params
\* the requesting tab supplied at the Render click, and so is the spp in
\* the temp file.
C6_SppPassedThrough ==
  \A i \in DOMAIN procs :
    LET c == procs[i].child
        tab_spp == get_default_params(procs[i].tab).spp
    IN /\ c.spp # 0 => c.spp = tab_spp
       /\ disk[c.scene_file] # NoFile => disk[c.scene_file].params.spp = tab_spp

C6_Witness ==
  \E i \in DOMAIN procs :
    procs[i].tab = "glass" /\ procs[i].child.spp = 512 /\ default_spp # 512

\* C8: when the render a tab requested is over (its process finished), that
\* tab is in the non-rendering state, whichever tab is selected then.
C8_RequestingTabReset ==
  [][\A i \in DOMAIN procs :
       (emitted' # <<>> /\ emitted'[1] = Sig("processDied", i, <<>>))
       => tabs'[procs[i].tab] = set_rendering_state(FALSE)]_vars

\* C9: between events a tab is in the rendering state only if the renderer
\* has a running child process.
C9_RenderingOnlyWhileRunning ==
  \A t \in TabNames :
    tabs[t].is_rendering => \E i \in DOMAIN procs : procs[i].state = "Running"

\* the Render click on tab t finds a tab whose scene preparation raises
Raises(t) == IsRaised(get_scene_dict(t, get_default_params(t), mesh_file_path))

\* C10: a Render click whose preparation raises emits no render_requested,
\* starts no child, leaves the tab's state and buttons as they were, and
\* emits an error log message.
C10_FailedPreparation ==
  [][\A t \in SceneTabs :
       (Clicked("render_btn", t)' /\ Raises(t))
       => /\ Emitted("render_requested")' = {}
          /\ procs' = procs /\ process' = process
          /\ disk' = disk /\ temp_files' = temp_files
          /\ tabs' = tabs
          /\ \E k \in Emitted("log_message")' :
               emitted'[k].msg = <<"Error: Failed to prepare scene", t>>]_vars

C10_Witness ==
  /\ Clicked("render_btn", "mesh") /\ mesh_file_path = ""
  /\ Emitted("render_requested") = {} /\ Emitted("log_message") # {}


\* the event handled last was a call of cancel_render
Cancelled == emitted # <<>> /\ emitted[1] = Sig("cancel_render", 0, <<>>)

\* C13: after cancel_render returns no render child process is running, and
\* a call made while the renderer's process is not running changes nothing
\* and emits no message.
C13_CancelStopsChildren ==
  [][Cancelled' =>
       /\ LiveChildren' = {}
       /\ ~Running => /\ <<tabs, process, procs, temp_files, disk>>'
                          = <<tabs, process, procs, temp_files, disk>>
                      /\ Len(emitted') = 1]_vars

\* the 'Render cancelled' messages among the signals of the last event
CancelLogs ==
  {k \in Emitted("log_message") : emitted[k].msg = <<"Render cancelled">>}

\* C14: an event in which cancel_render ended a render reports that render
\* with render_failed and not with render_complete, whether or not the child
\* had exited by itself, and the 'Render cancelled' message comes after the
\* failure notification.
C14_CancelReportsFailure ==
  [][\A k \in CancelLogs' :
       /\ Emitted("render_complete")' = {}
       /\ \E j \in Emitted("render_failed")' : j < k]_vars

\* the event handled last was a close event
CloseHandled == emitted # <<>> /\ emitted[1] = Sig("closeEvent", 0, <<>>)

\* the user's answer when the last event asked 'Cancel and quit?', "" when
\* it did not ask
Answer ==
  IF Emitted("question") = {} THEN ""
  ELSE emitted[CHOOSE k \in Emitted("question") : TRUE].msg[2]

\* C15: a close event that finds a render child running is accepted only
\* after the user answered Yes to 'Cancel and quit?'; after the answer No it
\* is ignored and the children run on; and no render child is running once
\* a close event was accepted.
C15_CloseStopsChildren ==
  [][CloseHandled' =>
       /\ (LiveChildren # {} /\ closed') => Answer' = "Yes"
       /\ Answer' = "No" => ~closed' /\ procs' = procs
       /\ closed' => LiveChildren' = {}]_vars

\* the temp scene files render_scene created that are still on disk
OnDisk == {f \in DOMAIN disk : disk[f] # NoFile}

Recorded == {temp_files[k] : k \in DOMAIN temp_files}

HasPrefix(line, tag) == Len(line) >= Len(tag) /\ \A k \in 1..Len(tag) : line[k] = tag[k]

\* the text of a PROGRESS line after the tag
Payload(line) == SubSeq(line, Len(PROGRESS_TAG) + 1, Len(line))

\* the text of a PROGRESS line between the tag and the next colon
FirstField(line) ==
  LET text == Payload(line)
      colons == {k \in 1..Len(text) : text[k] = ":"}
  IN IF colons = {} THEN text
     ELSE SubSeq(text, 1, (CHOOSE k \in colons : \A j \in colons : k <= j) - 1)

\* text without the whitespace around it
Trimmed(text) ==
  LET inked == {k \in 1..Len(text) : text[k] \notin WhiteSpace}
  IN IF inked = {} THEN <<>>
     ELSE SubSeq(text, CHOOSE k \in inked : \A j \in inked : k <= j,
                       CHOOSE k \in inked : \A j \in inked : k >= j)

\* the digits of an integer literal, <<>> when text is not one
LiteralDigits(text) ==
  LET t == Trimmed(text)
      d == IF t # <<>> /\ t[1] \in {"+", "-"} THEN SubSeq(t, 2, Len(t)) ELSE t
  IN IF \A k \in 1..Len(d) : d[k] \in Digits THEN d ELSE <<>>

IsIntegerLiteral(text) == LiteralDigits(text) # <<>>

IsNegativeLiteral(text) == Trimmed(text)[1] = "-"

\* the digits without leading zeros
Significant(d) ==
  LET nz == {k \in 1..Len(d) : d[k] # "0"}
  IN IF nz = {} THEN <<>>
     ELSE SubSeq(d, CHOOSE k \in nz : \A j \in nz : k <= j, Len(d))

MaxDigits == <<"2", "1", "4", "7", "4", "8", "3", "6", "4", "7">>

MinDigits == <<"2", "1", "4", "7", "4", "8", "3", "6", "4", "8">>

\* digit strings of equal length compared as numbers
NotAbove(d, limit) ==
  \/ d = limit
  \/ \E k \in 1..Len(d) :
       /\ DigitVal(d[k]) < DigitVal(limit[k])
       /\ \A j \in 1..(k - 1) : d[j] = limit[j]

\* the integer literal denotes a value of the C int range
InSignalRange(text) ==
  LET d == Significant(LiteralDigits(text))
  IN \/ Len(d) < Len(MaxDigits)
     \/ /\ Len(d) = Len(MaxDigits)
        /\ NotAbove(d, IF IsNegativeLiteral(text) THEN MinDigits ELSE MaxDigits)

RECURSIVE Magnitude(_, _)
\* the number the digits denote, given the number acc of the digits before
Magnitude(d, acc) ==
  IF d = <<>> THEN acc ELSE Magnitude(Tail(d), 10 * acc + DigitVal(d[1]))

\* the value of an integer literal of the C int range (the most negative
\* one is outside the checked inputs)
LiteralValue(text) ==
  LET m == Magnitude(Significant(LiteralDigits(text)), 0)
  IN IF IsNegativeLiteral(text) THEN 0 - m ELSE m

\* what a line is to make _on_stdout emit when the integer of a PROGRESS
\* line is looked for in text
LineEmits(line, text) ==
  IF HasPrefix(line, PROGRESS_TAG)
  THEN IF IsIntegerLiteral(text) /\ InSignalRange(text)
       THEN <<Sig("progress_updated", LiteralValue(text), <<>>)>>
       ELSE <<>>
  ELSE IF HasPrefix(line, LOG_TAG)
  THEN <<Sig("log_message", 0, Trimmed(SubSeq(line, Len(LOG_TAG) + 1, Len(line))))>>
  ELSE <<>>

\* the signals emitted while handling the last event, without the event
Handling == Tail(emitted)

\* positions of emitted signals, line by line: cut[k] signals come from the
\* lines before line k
RECURSIVE EmittedBefore(_, _, _)
EmittedBefore(lines, k, payload) ==
  IF k = 1 THEN 0
  ELSE EmittedBefore(lines, k - 1, payload)
         + Len(LineEmits(lines[k - 1],
                         IF payload THEN Payload(lines[k - 1])
                         ELSE FirstField(lines[k - 1])))

\* every line of the chunk handled last emitted what LineEmits says, in the
\* order of the lines, and nothing else was emitted
LinesEmit(payload) ==
  LET lines == StdoutLines(last_chunk)
      n == Len(lines)
  IN emitted # <<>> =>
       /\ Len(Handling) = EmittedBefore(lines, n + 1, payload)
       /\ \A k \in 1..n :
            LET text == IF payload THEN Payload(lines[k]) ELSE FirstField(lines[k])
                want == LineEmits(lines[k], text)
                at == EmittedBefore(lines, k, payload)
            IN SubSeq(Handling, at + 1, at + Len(want)) = want

\* C5 as claimed: a PROGRESS line emits progress_updated exactly when its
\* payload, the text after the tag, is an integer (one the signal's int
\* argument can carry), and then with that integer; a LOG line emits the
\* stripped remainder; other lines emit nothing; no line stops the lines
\* after it.
C5_PayloadInteger == LinesEmit(TRUE)

\* C5 as amended: a PROGRESS line emits progress_updated exactly when the
\* text between the tag and the next colon is an integer literal of the C
\* int range, and then with that integer; a LOG line emits the stripped
\* remainder; other lines emit nothing; no line stops the lines after it.
C5_FirstFieldInteger == LinesEmit(FALSE)

C5_Witness ==
  /\ last_chunk = PROGRESS_TAG \o <<"5", ":", "x">>
  /\ Handling = <<Sig("progress_updated", 5, <<>>)>>

(***************************************************************************)
(* Properties of the scene generators.                                     *)
(***************************************************************************)
\* the film size a generator uses for a size params does not give
DefaultFilm(gen) ==
  IF gen = "cornell" THEN [width |-> 800, height |-> 800]
  ELSE [width |-> 800, height |-> 600]

Requested == emitted # <<>> /\ emitted[1].sig = "render_requested"

\* the temp scene file written last
LastFile == disk[Len(disk)]

\* C17: _on_render_requested hands render_scene a params dict with exactly
\* the keys spp, variant and integrator: spp and variant are those of the
\* signal's params where it has them and the Home tab's widget values where
\* not, integrator is the params' or 'path'; scene dict and output name are
\* handed on as they came.
C17_MergedParams ==
  [][Requested' =>
       LET given == request.params
           handed == LastFile'.params
       IN /\ Len(disk') = Len(disk) + 1
          /\ DOMAIN handed = {"spp", "variant", "integrator"}
          /\ handed.spp = IF "spp" \in DOMAIN given THEN given.spp ELSE home.spp
          /\ handed.variant
               = IF "variant" \in DOMAIN given THEN given.variant ELSE home.variant
          /\ handed.integrator
               = IF "integrator" \in DOMAIN given THEN given.integrator ELSE "path"
          /\ LastFile'.scene_dict = request.scene_dict
          /\ procs'[process'].output_name = request.output_name]_vars

C17_Witness ==
  /\ Requested /\ request.called
  /\ DOMAIN request.params = {"integrator", "width"}
  /\ home.spp = 64 /\ home.variant = "llvm_rgb"
  /\ LastFile.params = [spp |-> 64, variant |-> "llvm_rgb", integrator |-> "direct"]

\* C18: the scene a Render click on a scene tab sends to the renderer has
\* the film width and height the Home tab's resolution widgets show.
C18_FilmIsHomeResolution ==
  [][\A t \in AllSceneTabs :
       (Clicked("render_btn", t)' /\ Len(disk') > Len(disk))
       => LET film == LastFile'.scene_dict["sensor"].film
          IN film.width = home.width /\ film.height = home.height]_vars

(***************************************************************************)
(* Properties of the pipe between the child and _on_stdout.                *)
(***************************************************************************)
\* the emission the parent owes to one print call of the child
OwedSignal(call) ==
  CASE call.fn = "progress" -> <<Sig("progress_updated", call.arg[1], <<>>)>>
    [] call.fn = "log" -> <<Sig("log_message", 0, <<"[", "T", "]", " ", call.arg[1]>>)>>
    [] OTHER -> <<>>

RECURSIVE Owed(_)
Owed(calls) == IF calls = <<>> THEN <<>> ELSE OwedSignal(calls[1]) \o Owed(Tail(calls))

RECURSIVE Heard(_)
\* the signals emitted over the notifications, in order
Heard(deliveries) ==
  IF deliveries = <<>> THEN <<>> ELSE deliveries[1].signals \o Heard(Tail(deliveries))

\* every byte the child wrote has been read by _on_stdout
Drained == pipe.written # <<>> /\ \A i \in DOMAIN procs : procs[i].child.out = <<>>

\* C11: once the parent has read all the child wrote, it has emitted for
\* every PROGRESS and LOG line of the child exactly one progress_updated or
\* log_message with the line's payload, in the order the lines were written,
\* wherever the pipe cut the bytes between notifications.
C11_LinesSurviveSplits == Drained => Heard(pipe.deliveries) = Owed(pipe.written)

\* the child's output read in one piece is emitted line for line
C11_WholeChunkHeard ==
  (Drained /\ Len(pipe.deliveries) = 1) => Heard(pipe.deliveries) = Owed(pipe.written)

====
